---- MODULE Spec2Model ----
(***************************************************************************)
(* Model of the MG_NET_CHANGER profile switcher: the profile list kept in  *)
(* memory by App, its JSON image in profiles.json, the listbox and the     *)
(* selection index, the ProfileDialog windows, the CSV import and the      *)
(* command loop of apply_profile.                                          *)
(*                                                                         *)
(* The repository holds two variants of the same program,                  *)
(* netmotive_ip_switcher.py and network_profile_switcher.py; the variable  *)
(* variant says which one is running.                                      *)
(*                                                                         *)
(* Python values are represented as follows.  A dict is a function whose   *)
(* domain is a set of strings; the key None is the string NoneKey and the  *)
(* value None is the string PyNone.  The selection index None is NoneIdx.  *)
(* Writes to profiles.json are assumed to complete (no disk failure).      *)
(***************************************************************************)
EXTENDS Integers, Sequences, FiniteSets, TLC

\* ------------------------------------------------------------------ bounds
MaxProfiles == 2    \* longest profile_list explored
MaxDialogs  == 1    \* ProfileDialog windows open at the same time

\* ------------------------------------------------------- Python constants
NoneKey == "<None>"
PyNone  == "<None>"
NoneIdx == -1

Variants == {"netmotive", "network"}

fields == <<"ProfileName", "IP", "Subnet", "Gateway", "DNS1", "DNS2">>

FieldSet == {fields[i] : i \in 1..Len(fields)}

\* dict.get(key, default)
Get(d, k, default) == IF k \in DOMAIN d THEN d[k] ELSE default

\* truth value of a Python string-or-None
TruthyNotNone(v) == v # PyNone

Truthy(v) == v # "" /\ v # PyNone

\* --------------------------------------------------- profiles of the model
MkProfile(name, dns1, dns2) ==
  [k \in FieldSet |->
     CASE k = "ProfileName" -> name
       [] k = "IP"          -> "10.0.0.5"
       [] k = "Subnet"      -> "255.255.255.0"
       [] k = "Gateway"     -> "10.0.0.1"
       [] k = "DNS1"        -> dns1
       [] OTHER             -> dns2]

\* what the user may type into a ProfileDialog
TypedProfiles ==
  { MkProfile("A", "8.8.8.8", "1.1.1.1"),
    MkProfile("B", "", ""),
    MkProfile("", "8.8.8.8", "") }

\* ------------------------------------------------------------- persistence
\* json.dumps turns the key None into the string "null"
JsonKey(k) == IF k = NoneKey THEN "null" ELSE k

JsonObject(d) ==
  [k \in {JsonKey(x) : x \in DOMAIN d} |->
     d[CHOOSE x \in DOMAIN d : JsonKey(x) = k]]

json_dumps(data) == [i \in 1..Len(data) |-> JsonObject(data[i])]

\* the text json_dumps wrote parses back to the same objects, keys as strings
json_loads(text) == text

\* profiles.json: whether it exists, whether its text parses as JSON, and
\* the parsed text
NoFile == [exists |-> FALSE, valid |-> FALSE, text |-> <<>>]

GarbageFile == [exists |-> TRUE, valid |-> FALSE, text |-> <<>>]

\* load_profiles: [] when the file is absent; json.load raises on a text
\* that does not parse, which only the network variant catches
load_profiles(v, f) ==
  IF ~f.exists THEN [raised |-> FALSE, data |-> <<>>]
  ELSE IF f.valid THEN [raised |-> FALSE, data |-> json_loads(f.text)]
  ELSE IF v = "network" THEN [raised |-> FALSE, data |-> <<>>]
  ELSE [raised |-> TRUE, data |-> <<>>]

save_profiles(data) == [exists |-> TRUE, valid |-> TRUE, text |-> json_dumps(data)]

\* ------------------------------------------------------------------- lists
RemoveAt(s, i) == [j \in 1..(Len(s) - 1) |-> IF j < i THEN s[j] ELSE s[j + 1]]

ReplaceAtFirst(s, i, x) == [s EXCEPT ![1] = x]

ReplaceAt(s, i, x) == [s EXCEPT ![i] = x]

\* ------------------------------------------------------------ CSV sources
\* A source is what the file dialog's path leads to: whether open() works,
\* the header line, the data lines (each a list of cells) and how many data
\* lines the reader yields before it raises (csv.Error, UnicodeDecodeError).
header == fields

RowC        == <<"C", "10.0.0.5", "255.255.255.0", "10.0.0.1", "8.8.8.8", "">>
RowNoName   == <<"",  "10.0.0.5", "255.255.255.0", "10.0.0.1", "8.8.8.8", "">>
RowLong     == RowC \o <<"extra">>
BlankLine   == <<>>

CsvGood     == [name |-> "CsvGood", opens |-> TRUE,  fieldnames |-> header, lines |-> <<RowC>>, readable |-> 1]
CsvMixed    == [name |-> "CsvMixed", opens |-> TRUE,  fieldnames |-> header,
                lines |-> <<RowC, BlankLine, RowNoName>>, readable |-> 3]
CsvLong     == [name |-> "CsvLong", opens |-> TRUE,  fieldnames |-> header, lines |-> <<RowLong>>, readable |-> 1]
CsvNoColumn == [name |-> "CsvNoColumn", opens |-> TRUE,  fieldnames |-> Tail(header),
                lines |-> <<Tail(RowC)>>, readable |-> 1]
CsvBroken   == [name |-> "CsvBroken", opens |-> TRUE,  fieldnames |-> header, lines |-> <<RowC, RowC>>, readable |-> 1]
CsvNoOpen   == [name |-> "CsvNoOpen", opens |-> FALSE, fieldnames |-> <<>>, lines |-> <<>>, readable |-> 0]

CsvSources == {CsvGood, CsvMixed, CsvLong, CsvNoColumn, CsvBroken, CsvNoOpen}

\* csv.DictReader: one dict per data line, keyed by the header; cells beyond
\* the header go under the key None, missing cells are None
DictReaderRow(fieldnames, row) ==
  LET lf  == Len(fieldnames)
      dom == {fieldnames[i] : i \in 1..lf} \cup
             (IF Len(row) > lf THEN {NoneKey} ELSE {})
  IN [k \in dom |->
        IF k = NoneKey /\ Len(row) > lf
        THEN SubSeq(row, lf + 1, Len(row))
        ELSE LET i == CHOOSE j \in 1..lf : fieldnames[j] = k
             IN IF i <= Len(row) THEN row[i] ELSE PyNone]

\* the dicts DictReader yields for the first n data lines; blank lines are
\* skipped
RECURSIVE DictReader(_, _, _)
DictReader(fieldnames, lines, n) ==
  IF n = 0 \/ lines = <<>> THEN <<>>
  ELSE IF Head(lines) = <<>>
       THEN DictReader(fieldnames, Tail(lines), n - 1)
       ELSE <<DictReaderRow(fieldnames, Head(lines))>> \o
            DictReader(fieldnames, Tail(lines), n - 1)

\* ---------------------------------------------------------------- listbox
\* refresh_list: clear the listbox, then insert p["ProfileName"] for every
\* profile; a profile without that key raises KeyError and the loop stops
RefreshPrefix(list) ==
  IF \A i \in 1..Len(list) : "ProfileName" \in DOMAIN list[i]
  THEN Len(list)
  ELSE (CHOOSE i \in 1..Len(list) :
          /\ "ProfileName" \notin DOMAIN list[i]
          /\ \A j \in 1..(i - 1) : "ProfileName" \in DOMAIN list[j]) - 1

refresh_list(list) ==
  [items  |-> [i \in 1..RefreshPrefix(list) |-> list[i]["ProfileName"]],
   raised |-> RefreshPrefix(list) < Len(list)]

\* ---------------------------------------------------------------- dialogs
\* StringVar(value=None) holds the empty string
StringVar(v) == IF v = PyNone THEN "" ELSE v

\* ProfileDialog.__init__: one StringVar per field, from data or empty
DialogVars(data) == [k \in FieldSet |-> StringVar(Get(data, k, PyNone))]

EmptyVars == [k \in FieldSet |-> ""]

NoProfile == <<>>

\* ------------------------------------------------------------- CSV export
NoExport == [exists |-> FALSE, fieldnames |-> <<>>, lines |-> <<>>]

\* csv.writer writes None as the empty string
CsvCell(v) == IF v = PyNone THEN "" ELSE v

\* DictWriter.writerow: a dict with a key outside the header raises
\* ValueError; a missing key is written as the empty string
WriterRaises(fieldnames, row) ==
  \E k \in DOMAIN row : \A i \in 1..Len(fieldnames) : fieldnames[i] # k

WriterLine(fieldnames, row) ==
  [i \in 1..Len(fieldnames) |-> CsvCell(Get(row, fieldnames[i], ""))]

\* "for row in App.profile_list: writer.writerow(row)": the lines written
\* before the first row that raises
RECURSIVE WrittenLines(_, _)
WrittenLines(fieldnames, list) ==
  IF list = <<>> \/ WriterRaises(fieldnames, Head(list)) THEN <<>>
  ELSE <<WriterLine(fieldnames, Head(list))>> \o
       WrittenLines(fieldnames, Tail(list))

\* the exported file as a source of import_csv
ExportedSource(e) ==
  [name |-> "exported", opens |-> e.exists, fieldnames |-> e.fieldnames,
   lines |-> e.lines, readable |-> Len(e.lines)]

\* ------------------------------------------------------------------ state
VARIABLES
  variant,                 \* which of the two programs runs
  pc,                      \* "mainloop", or "exited" when App() raised
  exported,                \* the CSV file export_profiles_csv wrote last
  profile_list,            \* App.profile_list
  file,                    \* profiles.json
  listbox,                 \* items shown by App.listbox
  selected_profile_index,  \* App.selected_profile_index (0-based) or NoneIdx
  dialogs,                 \* open ProfileDialog windows: [title, vars] and
                           \* opened, the position of the entry passed as data
  cmds,                    \* apply_profile: the synthesized commands
  executed,                \* apply_profile: the subprocess.run calls made
  applyState,              \* Idle, Executing, Succeeded or Failed
  shown,                   \* the message box apply_profile showed
  last                     \* the handler that ran last, its input and outcome

vars == <<variant, pc, exported, profile_list, file, listbox, selected_profile_index,
          dialogs, cmds, executed, applyState, shown, last>>

storeVars == <<profile_list, file, listbox, selected_profile_index, dialogs>>

applyVars == <<cmds, executed, applyState, shown>>

NoMessage == [title |-> "", command |-> <<>>, stderr |-> ""]

Done(op, result, profile, index, source, writes) ==
  [op |-> op, result |-> result, profile |-> profile, index |-> index,
   source |-> source, writes |-> writes]

\* App.__init__: the list is loaded from profiles.json, nothing is selected;
\* an exception of load_profiles ends the program before the main loop
Init ==
  /\ variant \in Variants
  /\ file \in {NoFile, save_profiles(<<>>), GarbageFile}
  /\ pc = IF load_profiles(variant, file).raised THEN "exited" ELSE "mainloop"
  /\ profile_list = load_profiles(variant, file).data
  /\ listbox = refresh_list(profile_list).items
  /\ selected_profile_index = NoneIdx
  /\ exported = NoExport
  /\ dialogs = <<>>
  /\ cmds = <<>>
  /\ executed = <<>>
  /\ applyState = "Idle"
  /\ shown = NoMessage
  /\ last = Done("init", "ok", NoProfile, NoneIdx, "", 0)

\* handlers run one at a time on the Tk main loop; apply_profile blocks it
Idle == pc = "mainloop" /\ applyState = "Idle"

InBounds(i, list) == 0 <= i /\ i < Len(list)

\* --------------------------------------------------------------- handlers
\* on_select: the first selected listbox row, or None when nothing is
\* selected (the listbox lost the selection, or an empty area was clicked)
on_select ==
  /\ Idle
  /\ \E sel \in (0..(Len(listbox) - 1)) \cup {NoneIdx} :
       /\ selected_profile_index' = sel
       /\ last' = Done("on_select", "ok", NoProfile, sel, "", 0)
  /\ UNCHANGED <<variant, pc, exported, profile_list, file, listbox, dialogs, applyVars>>

\* add_profile: open an empty dialog
add_profile ==
  /\ Idle
  /\ Len(dialogs) < MaxDialogs
  /\ dialogs' = Append(dialogs, [title |-> "Add Profile", vars |-> EmptyVars,
                                 opened |-> NoneIdx])
  /\ last' = Done("add_profile", "ok", NoProfile, NoneIdx, "", 0)
  /\ UNCHANGED <<variant, pc, exported, profile_list, file, listbox, selected_profile_index,
                 applyVars>>

\* edit_profile: open a dialog on profile_list[selected_profile_index].
\* The dialog is given the entry, not its position; with remember the record
\* of the dialog keeps that position as history, which no handler reads.
EditProfile(remember) ==
  /\ Idle
  /\ Len(dialogs) < MaxDialogs
  /\ IF selected_profile_index = NoneIdx
     THEN /\ last' = Done("edit_profile", "select", NoProfile, NoneIdx, "", 0)
          /\ UNCHANGED dialogs
     ELSE IF ~InBounds(selected_profile_index, profile_list)
     THEN /\ last' = Done("edit_profile", "IndexError", NoProfile,
                          selected_profile_index, "", 0)
          /\ UNCHANGED dialogs
     ELSE /\ dialogs' = Append(dialogs,
                 [title |-> "Edit Profile",
                  vars  |-> DialogVars(profile_list[selected_profile_index + 1]),
                  opened |-> IF remember THEN selected_profile_index
                             ELSE NoneIdx])
          /\ last' = Done("edit_profile", "ok", NoProfile,
                          selected_profile_index, "", 0)
  /\ UNCHANGED <<variant, pc, exported, profile_list, file, listbox, selected_profile_index,
                 applyVars>>

edit_profile == EditProfile(FALSE)

edit_profile_opened == EditProfile(TRUE)

\* the user types into the entries of an open dialog
type_fields ==
  /\ Idle
  /\ \E d \in 1..Len(dialogs), p \in TypedProfiles :
       /\ dialogs[d].vars # p
       /\ dialogs' = [dialogs EXCEPT ![d].vars = p]
       /\ last' = Done("type_fields", "ok", p, NoneIdx, "", 0)
  /\ UNCHANGED <<variant, pc, exported, profile_list, file, listbox, selected_profile_index,
                 applyVars>>

\* the user closes a dialog window without saving
close_dialog ==
  /\ Idle
  /\ \E d \in 1..Len(dialogs) :
       /\ dialogs' = RemoveAt(dialogs, d)
       /\ last' = Done("close_dialog", "ok", NoProfile, NoneIdx, "", 0)
  /\ UNCHANGED <<variant, pc, exported, profile_list, file, listbox, selected_profile_index,
                 applyVars>>

\* ProfileDialog.save: "if not new_profile['ProfileName']" rejects the profile
ValidateAcceptAll(profile) == TRUE

Validate(profile) == profile["ProfileName"] # ""

\* ProfileDialog.save: replace when the title starts with "Edit" and an index
\* is selected, append otherwise
Replaces(title, sel) == title = "Edit Profile" /\ sel # NoneIdx

\* ProfileDialog.save
save ==
  /\ Idle
  /\ \E d \in 1..Len(dialogs) :
       LET profile == dialogs[d].vars
           title   == dialogs[d].title
           sel     == selected_profile_index
       IN IF ~Validate(profile)
          THEN /\ last' = Done("save", "ValidationError", profile, NoneIdx, title, 0)
               /\ UNCHANGED storeVars
          ELSE IF Replaces(title, sel) /\ ~InBounds(sel, profile_list)
          THEN /\ last' = Done("save", "IndexError", profile, sel, title, 0)
               /\ UNCHANGED storeVars
          ELSE /\ Replaces(title, sel) \/ Len(profile_list) < MaxProfiles
               /\ profile_list' =
                    IF Replaces(title, sel)
                    THEN ReplaceAt(profile_list, sel + 1, profile)
                    ELSE Append(profile_list, profile)
               /\ file' = save_profiles(profile_list')
               /\ listbox' = refresh_list(profile_list').items
               /\ dialogs' = IF refresh_list(profile_list').raised
                             THEN dialogs ELSE RemoveAt(dialogs, d)
               /\ last' = Done("save",
                               IF refresh_list(profile_list').raised
                               THEN "KeyError" ELSE "ok",
                               profile,
                               IF Replaces(title, sel) THEN sel ELSE NoneIdx,
                               title, 1)
               /\ UNCHANGED selected_profile_index
  /\ UNCHANGED <<variant, pc, exported, applyVars>>

\* delete_profile leaves selected_profile_index as it is
SelectionAfterDelete(sel) == sel

\* the network variant asks "Delete selected profile?" first
Confirmations(v) == IF v = "network" THEN BOOLEAN ELSE {TRUE}

\* where the dict an Edit dialog was opened on sits after "del
\* self.profile_list[sel]": later entries move down one position, the deleted
\* one is in the list no more
Deleted == -2

OpenedAfterDelete(opened, sel) ==
  IF opened = NoneIdx \/ opened = Deleted THEN opened
  ELSE IF opened = sel THEN Deleted
  ELSE IF opened > sel THEN opened - 1
  ELSE opened

\* delete_profile
delete_profile ==
  /\ Idle
  /\ LET sel == selected_profile_index
     IN IF sel = NoneIdx
        THEN /\ last' = Done("delete_profile", "none", NoProfile, NoneIdx, "", 0)
             /\ UNCHANGED storeVars
        ELSE \E yes \in Confirmations(variant) :
          IF ~yes
          THEN /\ last' = Done("delete_profile", "declined", NoProfile, sel, "", 0)
               /\ UNCHANGED storeVars
          ELSE IF ~InBounds(sel, profile_list)
          THEN /\ last' = Done("delete_profile", "IndexError", NoProfile, sel, "", 0)
               /\ UNCHANGED storeVars
          ELSE /\ profile_list' = RemoveAt(profile_list, sel + 1)
               /\ file' = save_profiles(profile_list')
               /\ listbox' = refresh_list(profile_list').items
               /\ selected_profile_index' = SelectionAfterDelete(sel)
               /\ last' = Done("delete_profile",
                               IF refresh_list(profile_list').raised
                               THEN "KeyError" ELSE "ok",
                               NoProfile, sel, "", 1)
               /\ dialogs' = [d \in DOMAIN dialogs |->
                      [dialogs[d] EXCEPT !.opened = OpenedAfterDelete(@, sel)]]
  /\ UNCHANGED <<variant, pc, exported, applyVars>>

\* import_csv: "for row in reader: self.profile_list.append(row)"
AppendRowsDedup(list, rows) ==
  list \o SelectSeq(rows, LAMBDA r : \A i \in 1..Len(list) : list[i] # r)

AppendRows(list, rows) == list \o rows

\* import_csv once the file dialog returned the path of src
ImportFrom(src) ==
  LET rows == DictReader(src.fieldnames, src.lines, src.readable)
  IN /\ Len(profile_list) + Len(rows) <= MaxProfiles
     /\ IF ~src.opens
        THEN /\ last' = Done("import_csv", "error", NoProfile, NoneIdx,
                             src.name, 0)
             /\ UNCHANGED storeVars
        ELSE IF src.readable < Len(src.lines)
        THEN /\ profile_list' = AppendRows(profile_list, rows)
             /\ last' = Done("import_csv", "error", NoProfile, NoneIdx,
                             src.name, 0)
             /\ UNCHANGED <<file, listbox, selected_profile_index, dialogs>>
        ELSE /\ profile_list' = AppendRows(profile_list, rows)
             /\ file' = save_profiles(profile_list')
             /\ listbox' = refresh_list(profile_list').items
             /\ last' = Done("import_csv",
                             IF refresh_list(profile_list').raised
                             THEN "error" ELSE "ok",
                             NoProfile, NoneIdx, src.name, 1)
             /\ UNCHANGED <<selected_profile_index, dialogs>>

\* import_csv
import_csv ==
  /\ Idle
  /\ \/ /\ last' = Done("import_csv", "cancelled", NoProfile, NoneIdx, "", 0)
        /\ UNCHANGED storeVars
     \/ \E src \in CsvSources : ImportFrom(src)
  /\ UNCHANGED <<variant, pc, exported, applyVars>>

\* import_csv on the file export_profiles_csv wrote
import_exported ==
  /\ Idle
  /\ exported.exists
  /\ ImportFrom(ExportedSource(exported))
  /\ UNCHANGED <<variant, pc, exported, applyVars>>

\* export_profiles_csv: "if not App.profile_list" refuses an empty list
NothingToExportNever(list) == FALSE

NothingToExport(list) == list = <<>>

\* export_profiles_csv (netmotive only): the destination is chosen in a file
\* dialog and may not be writable
export_profiles_csv ==
  /\ Idle
  /\ variant = "netmotive"
  /\ IF NothingToExport(profile_list)
     THEN /\ last' = Done("export_profiles_csv", "empty", NoProfile, NoneIdx, "", 0)
          /\ UNCHANGED exported
     ELSE \/ /\ last' = Done("export_profiles_csv", "cancelled", NoProfile,
                             NoneIdx, "", 0)
             /\ UNCHANGED exported
          \/ /\ last' = Done("export_profiles_csv", "unwritable", NoProfile,
                             NoneIdx, "", 0)
             /\ UNCHANGED exported
          \/ /\ exported' = [exists |-> TRUE, fieldnames |-> header,
                             lines |-> WrittenLines(header, profile_list)]
             /\ last' = Done("export_profiles_csv",
                             IF Len(exported'.lines) = Len(profile_list)
                             THEN "ok" ELSE "error",
                             NoProfile, NoneIdx, "", 0)
  /\ UNCHANGED <<variant, pc, storeVars, applyVars>>

\* ------------------------------------------------------------ apply_profile
Systems  == {"Windows", "Darwin", "Linux"}    \* platform.system()
Adapters == {"Eth0"}                          \* adapter_var.get()

ReturnCodes == {0, 1}

\* what a failing command writes to stderr, and str.strip() of it
Stderrs == {"", "denied\n"}

Strip(text) == IF text = "denied\n" THEN "denied" ELSE text

\* an f-string renders None as "None"
Format(v) == IF v = PyNone THEN "None" ELSE v

\* profile.get("DNS1", "") in netmotive, profile.get("DNS1") in network
DnsDefault(v) == IF v = "netmotive" THEN "" ELSE PyNone

\* " ".join of the non-empty values, as a list of words
JoinAll(values) == values

JoinNonEmpty(values) == SelectSeq(values, Truthy)

\* a command line: the text of the f-string and the values put into it
Command(template, adapter, args) ==
  [template |-> template, adapter |-> adapter, args |-> args]

\* the branch apply_profile takes for platform.system()
FamilyDefaultMac(system) ==
  IF system = "Windows" THEN "WindowsLike" ELSE "MacLike"

Family(system) ==
  CASE system = "Windows" -> "WindowsLike"
    [] system = "Darwin"  -> "MacLike"
    [] OTHER              -> "Unsupported"

\* apply_profile up to the loop: the command list for the platform, or
\* "unsupported"
Synthesize(v, system, adapter, profile) ==
  LET ip      == profile["IP"]
      subnet  == profile["Subnet"]
      gateway == profile["Gateway"]
      dns1    == Get(profile, "DNS1", DnsDefault(v))
      dns2    == Get(profile, "DNS2", DnsDefault(v))
  IN CASE Family(system) = "WindowsLike" ->
            [ok |-> TRUE,
             cmds |->
               <<Command("netsh interface ip set address {adapter} static {ip} {subnet} {gateway}",
                         adapter, <<Format(ip), Format(subnet), Format(gateway)>>),
                 Command("netsh interface ip set dns {adapter} static {dns1}",
                         adapter, <<Format(dns1)>>)>> \o
               (IF Truthy(dns2)
                THEN <<Command("netsh interface ip add dns {adapter} {dns2} index=2",
                               adapter, <<Format(dns2)>>)>>
                ELSE <<>>)]
       [] Family(system) = "MacLike" ->
            [ok |-> TRUE,
             cmds |->
               <<Command("networksetup -setmanual {adapter} {ip} {subnet} {gateway}",
                         adapter, <<Format(ip), Format(subnet), Format(gateway)>>)>> \o
               (IF Truthy(dns1) \/ Truthy(dns2)
                THEN <<Command("networksetup -setdnsservers {adapter} {dns}",
                               adapter, JoinNonEmpty(<<dns1, dns2>>))>>
                ELSE <<>>)]
       [] OTHER -> [ok |-> FALSE, cmds |-> <<>>]

RequiredKeys == {"IP", "Subnet", "Gateway"}

\* apply_selected, and apply_profile up to the first subprocess.run, with the
\* adapter combobox offering the given adapters
ApplySelected(adapters) ==
  /\ Idle
  /\ LET sel == selected_profile_index
     IN IF sel = NoneIdx
        THEN /\ last' = Done("apply_selected", "select", NoProfile, NoneIdx, "", 0)
             /\ UNCHANGED applyVars
        ELSE IF ~InBounds(sel, profile_list)
        THEN /\ last' = Done("apply_selected", "IndexError", NoProfile, sel, "", 0)
             /\ UNCHANGED applyVars
        ELSE IF ~(RequiredKeys \subseteq DOMAIN profile_list[sel + 1])
        THEN /\ last' = Done("apply_selected", "KeyError", NoProfile, sel, "", 0)
             /\ UNCHANGED applyVars
        ELSE \E system \in Systems, adapter \in adapters :
               LET syn == Synthesize(variant, system, adapter, profile_list[sel + 1])
               IN /\ cmds' = syn.cmds
                  /\ executed' = <<>>
                  /\ applyState' = IF syn.ok THEN "Executing" ELSE "Failed"
                  /\ shown' = IF syn.ok THEN NoMessage
                              ELSE [title |-> "Unsupported OS", command |-> <<>>,
                                    stderr |-> ""]
                  /\ last' = Done("apply_selected", system, NoProfile, sel,
                                  adapter, 0)
  /\ UNCHANGED <<variant, pc, exported, storeVars>>

apply_selected == ApplySelected(Adapters)

\* "for c in cmds": the command the loop runs after those already run
NextCommandReversed(commands, runs) == commands[Len(commands) - Len(runs)]

NextCommand(commands, runs) == commands[Len(runs) + 1]

\* the loop after a run: break on a non-zero return code, leave after the
\* last command, go on otherwise
AfterRunNoBreak(returncode, done, total) ==
  IF done < total THEN "Executing"
  ELSE IF returncode # 0 THEN "Failed" ELSE "Succeeded"

AfterRunSucceedAtEnd(returncode, done, total) ==
  IF done = total THEN "Succeeded"
  ELSE IF returncode # 0 THEN "Failed" ELSE "Executing"

AfterRun(returncode, done, total) ==
  IF returncode # 0 THEN "Failed"
  ELSE IF done < total THEN "Executing" ELSE "Succeeded"

\* the error box: netmotive shows the stripped stderr, network all of it
ErrorBox(v, c, stderr) ==
  [title |-> "Command failed", command |-> c,
   stderr |-> IF v = "netmotive" THEN Strip(stderr) ELSE stderr]

\* one "result = subprocess.run(c, ...)" and the check of its return code
run_command ==
  /\ applyState = "Executing"
  /\ \E returncode \in ReturnCodes, stderr \in Stderrs :
       LET c == NextCommand(cmds, executed)
       IN /\ executed' = Append(executed,
                                [command |-> c, returncode |-> returncode,
                                 stderr |-> IF returncode = 0 THEN "" ELSE stderr])
          /\ applyState' = AfterRun(returncode, Len(executed'), Len(cmds))
          /\ shown' = IF returncode # 0 THEN ErrorBox(variant, c, stderr)
                      ELSE shown
  /\ UNCHANGED <<variant, pc, exported, storeVars, cmds, last>>

\* apply_profile returns to the main loop; its locals are gone
apply_return ==
  /\ applyState \in {"Succeeded", "Failed"}
  /\ cmds' = <<>>
  /\ executed' = <<>>
  /\ applyState' = "Idle"
  /\ shown' = NoMessage
  /\ last' = Done("apply_profile", applyState, NoProfile, last.index, "", 0)
  /\ UNCHANGED <<variant, pc, exported, storeVars>>

Next ==
  \/ on_select
  \/ add_profile
  \/ edit_profile
  \/ type_fields
  \/ close_dialog
  \/ save
  \/ delete_profile
  \/ import_csv
  \/ apply_selected
  \/ run_command
  \/ apply_return

Spec == Init /\ [][Next]_vars

\* ------------------------------------------------ apply_profile on its own
\* The program started on a profiles.json that holds one profile, whose DNS
\* fields are a value, empty, null or absent; the user selects it and
\* applies it to one of several adapters.
ApplyAdapters == {"Eth0", "Wi-Fi 2"}

DnsChoices == {"8.8.8.8", "", PyNone, "absent"}

StoredProfile(dns1, dns2) ==
  [k \in {"ProfileName", "IP", "Subnet", "Gateway"}
          \cup (IF dns1 = "absent" THEN {} ELSE {"DNS1"})
          \cup (IF dns2 = "absent" THEN {} ELSE {"DNS2"}) |->
     CASE k = "ProfileName" -> "Office"
       [] k = "IP"          -> "10.0.0.5"
       [] k = "Subnet"      -> "255.255.255.0"
       [] k = "Gateway"     -> "10.0.0.1"
       [] k = "DNS1"        -> dns1
       [] OTHER             -> IF dns2 = "8.8.8.8" THEN "1.1.1.1" ELSE dns2]

ApplyInit ==
  /\ variant \in Variants
  /\ \E dns1 \in DnsChoices, dns2 \in DnsChoices :
       file = save_profiles(<<StoredProfile(dns1, dns2)>>)
  /\ pc = IF load_profiles(variant, file).raised THEN "exited" ELSE "mainloop"
  /\ profile_list = load_profiles(variant, file).data
  /\ listbox = refresh_list(profile_list).items
  /\ selected_profile_index = NoneIdx
  /\ exported = NoExport
  /\ dialogs = <<>>
  /\ cmds = <<>>
  /\ executed = <<>>
  /\ applyState = "Idle"
  /\ shown = NoMessage
  /\ last = Done("init", "ok", NoProfile, NoneIdx, "", 0)

apply_selected_adapter == ApplySelected(ApplyAdapters)

ApplyNext ==
  \/ on_select
  \/ apply_selected_adapter
  \/ run_command
  \/ apply_return

\* subprocess.run blocks until the command returns, and apply_profile then
\* goes on: a started loop keeps running
ApplySpec ==
  /\ ApplyInit
  /\ [][ApplyNext]_vars
  /\ WF_vars(run_command)
  /\ WF_vars(apply_return)

\* -------------------------------------------------- export specification
\* The netmotive program (the one that has Export): the store operations
\* together with export and the import of the exported file.
ExportInit ==
  /\ Init
  /\ variant = "netmotive"

ExportNext ==
  \/ on_select
  \/ delete_profile
  \/ import_csv
  \/ import_exported
  \/ export_profiles_csv

ExportSpec == ExportInit /\ [][ExportNext]_vars

\* ---------------------------------------------------- edit specification
\* The store operations with Edit dialogs that remember the entry they were
\* opened on.
EditNext ==
  \/ on_select
  \/ add_profile
  \/ edit_profile_opened
  \/ type_fields
  \/ close_dialog
  \/ save
  \/ delete_profile
  \/ import_csv

EditSpec == Init /\ [][EditNext]_vars

\* ------------------------------------------------------------- properties
SourceNamed(n) ==
  IF n = "exported" THEN ExportedSource(exported)
  ELSE CHOOSE src \in CsvSources : src.name = n

AllRows(src) == DictReader(src.fieldnames, src.lines, Len(src.lines))

\* a source-level failure: the file does not open or the reader raises
SourceFails(src) == ~src.opens \/ src.readable < Len(src.lines)

\* a record that maps to a Profile: the six fields, all strings, a name
WellFormed(r) ==
  /\ DOMAIN r = FieldSet
  /\ \A k \in FieldSet : r[k] # PyNone
  /\ r["ProfileName"] # ""

CountWellFormed(rows) == Cardinality({i \in 1..Len(rows) : WellFormed(rows[i])})

\* C1: when a command exits non-zero, exactly the commands up to it have
\* run, in the synthesized order, it is the last one run, the invocation is
\* Failed and the error box names that command and carries its stderr.
C1_FirstFailureStops ==
  \A k \in 1..Len(executed) :
    executed[k].returncode # 0 =>
      /\ k = Len(executed)
      /\ \A j \in 1..k : executed[j].command = cmds[j]
      /\ \A j \in 1..(k - 1) : executed[j].returncode = 0
      /\ applyState = "Failed"
      /\ shown.title = "Command failed"
      /\ shown.command = cmds[k]
      /\ shown.stderr = IF variant = "netmotive" THEN Strip(executed[k].stderr)
                        ELSE executed[k].stderr

\* C1 witness: a three-command sequence whose second command failed
C1_Witness ==
  /\ applyState = "Failed"
  /\ Len(cmds) = 3
  /\ Len(executed) = 2
  /\ executed[1].returncode = 0
  /\ executed[2].returncode # 0
  /\ executed[2].stderr # ""

\* C2: every run appends exactly one command to those already run, it is the
\* next command of the synthesized sequence, all commands run before it
\* returned zero, and no command appears twice among those run.
C2_InOrderOnce ==
  [][(executed' # executed /\ executed' # <<>>) =>
       /\ Len(executed') = Len(executed) + 1
       /\ SubSeq(executed', 1, Len(executed)) = executed
       /\ Len(executed') <= Len(cmds)
       /\ executed'[Len(executed')].command = cmds[Len(executed')]
       /\ \A j \in 1..Len(executed) : executed[j].returncode = 0
       /\ \A i, j \in 1..Len(executed') :
            i # j => executed'[i].command # executed'[j].command
       /\ cmds' = cmds]_vars

\* C2 witness: all three commands of a sequence have run
C2_Witness ==
  /\ applyState = "Succeeded"
  /\ Len(cmds) = 3
  /\ Len(executed) = 3

\* C3: between two handlers, reloading profiles.json yields the in-memory
\* list.
C3_PersistedEqualsMemory ==
  Idle => load_profiles(variant, file).data = profile_list

\* C4: after a delete that removed an entry, nothing is selected.
C4_DeleteClearsSelection ==
  (last.op = "delete_profile" /\ last.writes = 1) =>
    selected_profile_index = NoneIdx

\* C5: an import whose source does not open or fails while being read leaves
\* the in-memory list and profiles.json as they were.
C5_FailedImportChangesNothing ==
  [][(last'.op = "import_csv" /\ last'.source # ""
      /\ SourceFails(SourceNamed(last'.source))) =>
       UNCHANGED <<profile_list, file>>]_vars

\* C6: an import of a readable source appends exactly its well-formed
\* records; the malformed ones are skipped.
C6_MalformedSkipped ==
  [][(last'.op = "import_csv" /\ last'.source # ""
      /\ ~SourceFails(SourceNamed(last'.source))) =>
       Len(profile_list') =
         Len(profile_list) + CountWellFormed(AllRows(SourceNamed(last'.source)))]_vars

\* C7: a successful import keeps the prior list as a prefix, appends all
\* records read from the source in source order, duplicates included, and
\* writes profiles.json once, with the whole new list.
C7_ImportAppends ==
  [][(last'.op = "import_csv" /\ last'.result = "ok") =>
       /\ Len(profile_list') >= Len(profile_list)
       /\ SubSeq(profile_list', 1, Len(profile_list)) = profile_list
       /\ SubSeq(profile_list', Len(profile_list) + 1, Len(profile_list'))
            = AllRows(SourceNamed(last'.source))
       /\ last'.writes = 1
       /\ file' = save_profiles(profile_list')]_vars

\* C7 witness: an import appended a record equal to the entry before it
C7_Witness ==
  /\ last.op = "import_csv"
  /\ last.result = "ok"
  /\ Len(profile_list) >= 2
  /\ profile_list[Len(profile_list)] = profile_list[Len(profile_list) - 1]

\* C8: saving a dialog whose name is empty is rejected and leaves the list,
\* profiles.json and the selection as they were.
C8_EmptyNameRejected ==
  [][(last'.op = "save" /\ last'.profile["ProfileName"] = "") =>
       /\ last'.result = "ValidationError"
       /\ last'.writes = 0
       /\ UNCHANGED <<profile_list, file, selected_profile_index>>]_vars

\* C8 witness: an Edit dialog with an empty name was saved and rejected while
\* an entry was selected
C8_Witness ==
  /\ last.op = "save"
  /\ last.result = "ValidationError"
  /\ last.source = "Edit Profile"
  /\ selected_profile_index # NoneIdx
  /\ profile_list # <<>>

\* C9: after a delete at an in-bounds index i, reloading profiles.json yields
\* the prior list without entry i: entries before i as they were, entries
\* after i one position lower.
C9_RemoveThenReload ==
  [][(last'.op = "delete_profile" /\ last'.writes = 1) =>
       LET i == last'.index
           r == load_profiles(variant, file').data
       IN /\ Len(r) = Len(profile_list) - 1
          /\ \A j \in 1..Len(r) :
               r[j] = IF j <= i THEN profile_list[j] ELSE profile_list[j + 1]]_vars

\* C10: after an Add dialog is saved with a non-empty name, reloading
\* profiles.json yields the prior list followed by the new profile.
C10_AddThenReload ==
  [][(last'.op = "save" /\ last'.source = "Add Profile"
      /\ last'.profile["ProfileName"] # "") =>
       load_profiles(variant, file').data = Append(profile_list, last'.profile)]_vars

\* C11: saving an Edit dialog with a non-empty name while an in-bounds index
\* is selected replaces the entry at that index only: the length and every
\* other entry stay, profiles.json is rewritten with the new list and the
\* selection keeps the same index.
C11_UpdateReplacesOne ==
  [][(last'.op = "save" /\ last'.source = "Edit Profile"
      /\ last'.profile["ProfileName"] # ""
      /\ InBounds(selected_profile_index, profile_list)) =>
       LET i == selected_profile_index + 1
       IN /\ Len(profile_list') = Len(profile_list)
          /\ profile_list'[i] = last'.profile
          /\ \A j \in 1..Len(profile_list) :
               j # i => profile_list'[j] = profile_list[j]
          /\ last'.writes = 1
          /\ file' = save_profiles(profile_list')
          /\ selected_profile_index' = selected_profile_index]_vars

\* C11 witness: the second of two entries was replaced by an Edit dialog
C11_Witness ==
  /\ last.op = "save"
  /\ last.result = "ok"
  /\ last.source = "Edit Profile"
  /\ last.index = 1
  /\ selected_profile_index = 1
  /\ Len(profile_list) = 2
  /\ profile_list[2] = last.profile
  /\ profile_list[1] # last.profile

\* C12: whenever profiles.json is absent or its text does not parse,
\* load_profiles returns the empty list without raising, and the program is
\* in its main loop with an empty list.
C12_LoadRecovers ==
  (last.op = "init" /\ (~file.exists \/ ~file.valid)) =>
    /\ ~load_profiles(variant, file).raised
    /\ load_profiles(variant, file).data = <<>>
    /\ pc = "mainloop"
    /\ profile_list = <<>>

\* a DNS field that names a server: present, not None, not empty
HasValue(profile, k) ==
  k \in DOMAIN profile /\ profile[k] # "" /\ profile[k] # PyNone

OnlyValues(profile, keys) ==
  SelectSeq(keys, LAMBDA k : HasValue(profile, k))

\* the profile and adapter of the apply invocation in progress
Applying(system) == last.op = "apply_selected" /\ last.result = system

AppliedProfile == profile_list[last.index + 1]

\* C13: when platform.system() is neither Windows nor Darwin, the invocation
\* is Failed with the unsupported-platform box, no command list exists and
\* no command has run.
C13_UnsupportedRunsNothing ==
  (last.op = "apply_selected" /\ last.result \in Systems
   /\ last.result \notin {"Windows", "Darwin"}) =>
    /\ applyState = "Failed"
    /\ shown.title = "Unsupported OS"
    /\ cmds = <<>>
    /\ executed = <<>>

\* C13 witness: an apply on Linux
C13_Witness ==
  /\ Applying("Linux")
  /\ applyState = "Failed"
  /\ selected_profile_index = 0

\* C14: on Windows the commands are, in this order, set address with
\* ip/subnet/gateway, set dns (always, also when DNS1 is empty, null or
\* absent) and, exactly when DNS2 names a server, add dns index=2 with DNS2;
\* so 2 commands without DNS2 and 3 with it, all on the chosen adapter.
C14_WindowsCommands ==
  Applying("Windows") =>
    LET p == AppliedProfile
    IN /\ Len(cmds) = IF HasValue(p, "DNS2") THEN 3 ELSE 2
       /\ \A i \in 1..Len(cmds) : cmds[i].adapter = last.source
       /\ cmds[1].template =
            "netsh interface ip set address {adapter} static {ip} {subnet} {gateway}"
       /\ cmds[1].args = <<p["IP"], p["Subnet"], p["Gateway"]>>
       /\ cmds[2].template = "netsh interface ip set dns {adapter} static {dns1}"
       /\ HasValue(p, "DNS1") => cmds[2].args = <<p["DNS1"]>>
       /\ HasValue(p, "DNS2") =>
            /\ cmds[3].template = "netsh interface ip add dns {adapter} {dns2} index=2"
            /\ cmds[3].args = <<p["DNS2"]>>

\* C14 witness: Windows, DNS1 names no server, DNS2 empty: two commands
C14_Witness ==
  /\ Applying("Windows")
  /\ ~HasValue(AppliedProfile, "DNS1")
  /\ "DNS2" \in DOMAIN AppliedProfile /\ AppliedProfile["DNS2"] = ""
  /\ Len(cmds) = 2
  /\ last.source = "Wi-Fi 2"

\* C15: on macOS the first command is setmanual with ip/subnet/gateway; a
\* single setdnsservers command follows exactly when DNS1 or DNS2 names a
\* server, and it lists those of DNS1, DNS2 that do, in that order.
C15_MacCommands ==
  Applying("Darwin") =>
    LET p == AppliedProfile
        servers == OnlyValues(p, <<"DNS1", "DNS2">>)
    IN /\ Len(cmds) = IF servers # <<>> THEN 2 ELSE 1
       /\ \A i \in 1..Len(cmds) : cmds[i].adapter = last.source
       /\ cmds[1].template =
            "networksetup -setmanual {adapter} {ip} {subnet} {gateway}"
       /\ cmds[1].args = <<p["IP"], p["Subnet"], p["Gateway"]>>
       /\ servers # <<>> =>
            /\ cmds[2].template = "networksetup -setdnsservers {adapter} {dns}"
            /\ cmds[2].args = [i \in 1..Len(servers) |-> p[servers[i]]]

\* C15 witness: macOS, DNS1 empty and DNS2 a server: the second command
\* lists DNS2 only
C15_Witness ==
  /\ Applying("Darwin")
  /\ "DNS1" \in DOMAIN AppliedProfile /\ AppliedProfile["DNS1"] = ""
  /\ HasValue(AppliedProfile, "DNS2")
  /\ Len(cmds) = 2
  /\ cmds[2].args = <<AppliedProfile["DNS2"]>>

\* C16: an invocation whose loop has started reaches Succeeded or Failed, and
\* it ends Succeeded (no error box) exactly when all synthesized commands
\* have run and each returned zero.
C16_ApplyTerminates ==
  /\ (applyState = "Executing") ~> (applyState \in {"Succeeded", "Failed"})
  /\ [](applyState \in {"Succeeded", "Failed"} =>
         /\ (applyState = "Succeeded") <=> (shown = NoMessage)
         /\ (applyState = "Succeeded") <=>
              /\ shown.title # "Unsupported OS"
              /\ Len(executed) = Len(cmds)
              /\ \A j \in 1..Len(executed) : executed[j].returncode = 0)

\* C16 witness: both commands of a macOS sequence ran and the invocation
\* ended Succeeded
C16_Witness ==
  /\ Applying("Darwin")
  /\ applyState = "Succeeded"
  /\ Len(cmds) = 2
  /\ Len(executed) = 2


\* C17: export_profiles_csv on an empty list reports that there is nothing
\* to export and writes no destination file; and whatever the outcome of an
\* export, the profile list, the profiles file, the listbox and the
\* selection are left as they were.
C17_ExportEmptyRefused ==
  [][last'.op = "export_profiles_csv" =>
       /\ UNCHANGED <<profile_list, file, listbox, selected_profile_index>>
       /\ (profile_list = <<>>) =>
            /\ last'.result = "empty"
            /\ exported' = exported]_vars

\* C17 witness: an export was refused on a list emptied by Delete, after an
\* earlier export had written a file, which is still as it was written
C17_Witness ==
  /\ last.op = "export_profiles_csv"
  /\ last.result = "empty"
  /\ profile_list = <<>>
  /\ file.exists
  /\ exported.exists
  /\ exported.lines # <<>>

\* C18: an export of a non-empty list that got as far as writing succeeds,
\* and reading the written file back as import_csv does yields a sequence
\* equal to the exported list, entry by entry and field by field.
C18_ExportImportRoundTrip ==
  [][(last'.op = "export_profiles_csv"
      /\ last'.result \notin {"empty", "cancelled", "unwritable"}) =>
       /\ last'.result = "ok"
       /\ AllRows(ExportedSource(exported')) = profile_list]_vars

\* C19: every entry of a readable profiles.json has a ProfileName that is a
\* non-empty string.
C19_NoNamelessPersisted ==
  (file.exists /\ file.valid) =>
    \A j \in 1..Len(json_loads(file.text)) :
      LET r == json_loads(file.text)[j]
      IN /\ "ProfileName" \in DOMAIN r
         /\ r["ProfileName"] \notin {"", PyNone}

\* C20: the selection is none or an index below the length of the list.
C20_SelectionInRange ==
  \/ selected_profile_index = NoneIdx
  \/ /\ selected_profile_index >= 0
     /\ selected_profile_index < Len(profile_list)

\* the open Edit dialogs whose entries hold the profile just saved
SavedDialogs ==
  {d \in 1..Len(dialogs) :
     dialogs[d].title = "Edit Profile" /\ dialogs[d].vars = last'.profile}

\* C21: pressing Save in an Edit dialog with a non-empty name, while the
\* entry the dialog was opened on is still in the list, replaces that entry
\* with the dialog's profile and changes nothing else of the list, whatever
\* happened between opening and saving.
C21_EditSavesOpenedEntry ==
  [][(last'.op = "save" /\ last'.source = "Edit Profile"
      /\ Validate(last'.profile)
      /\ \A d \in SavedDialogs : dialogs[d].opened >= 0) =>
       \E d \in SavedDialogs :
         profile_list' = ReplaceAt(profile_list, dialogs[d].opened + 1,
                                   last'.profile)]_vars

====
